---- MODULE Spec2Model ----
(***************************************************************************)
(* Model of the advertise microservice (src/advertise/src/index.js): the   *)
(* HTTP routes /images, /image and /upload, the image-uploaded consumer,   *)
(* the MongoDB "images" collection of each instance and the RabbitMQ       *)
(* exchange and queues the instances are attached to.                      *)
(***************************************************************************)
EXTENDS Integers, Sequences, FiniteSets, TLC

\* ------------------------------------------------------------------ bounds
MaxRequests == 2     \* HTTP requests and events of other services, together

Instances == {"A", "B"}

\* ------------------------------------------------------- values and helpers
NoFile == <<>>               \* req.file is undefined
NoResponse == 0              \* no status was sent
NoId == 0                    \* a document that has no _id yet
NoDate == -1                 \* a document without uploadedAt
Invalid == -1                \* new ObjectId(s) threw
NoDoc == [_id |-> NoId, imageUrl |-> <<>>, uploadedAt |-> NoDate, url |-> <<>>]

HexDigits == <<"0", "1", "2", "3", "4", "5", "6", "7",
               "8", "9", "a", "b", "c", "d", "e", "f">>
UpperDigits == <<"0", "1", "2", "3", "4", "5", "6", "7",
                 "8", "9", "A", "B", "C", "D", "E", "F">>

IsHexChar(c) == \E k \in 1..16 : HexDigits[k] = c \/ UpperDigits[k] = c
HexVal(c) == (CHOOSE k \in 1..16 : HexDigits[k] = c \/ UpperDigits[k] = c) - 1

\* ObjectId.toHexString / toJSON: the lower-case hex text of the id (two
\* digits here, twenty-four in the driver).
ToHexString(oid) == <<HexDigits[(oid \div 16) + 1], HexDigits[(oid % 16) + 1]>>

\* new mongodb.ObjectId(s) for a string s: the id the hex text denotes, read
\* without regard to case; any other string throws.
ObjectId(s) ==
    IF Len(s) = Len(ToHexString(0)) /\ \A k \in 1..Len(s) : IsHexChar(s[k])
    THEN HexVal(s[1]) * 16 + HexVal(s[2])
    ELSE Invalid

\* The JSON literal null in the place of an id.
Null == <<"null">>

\* A constructor that generates an id for whatever is no id.
NewObjectId_Lenient(inputId, generated) ==
    IF ObjectId(inputId) = Invalid THEN generated ELSE ObjectId(inputId)

\* new mongodb.ObjectId(inputId): without an inputId (null or undefined) the
\* constructor generates an id; a string is read as above.
NewObjectId(inputId, generated) ==
    IF inputId = Null THEN generated ELSE ObjectId(inputId)

\* path.extname: the last dot-led part of a name of more than one part.
ExtName(name) == IF Len(name) > 1 THEN name[Len(name)] ELSE ""

\* path.basename(name, ext): the name without a trailing ext.
BaseName(name, ext) ==
    IF Len(name) > 1 /\ name[Len(name)] = ext
    THEN SubSeq(name, 1, Len(name) - 1)
    ELSE name

\* ----------------------------------------------------------- the collection
HasId(coll, oid) == \E k \in 1..Len(coll) : coll[k]._id = oid
CountId(coll, oid) == Cardinality({k \in 1..Len(coll) : coll[k]._id = oid})

\* A findOne that ignores its filter.
FindOne_First(coll, oid) == IF Len(coll) > 0 THEN coll[1] ELSE NoDoc

\* collection.findOne({_id}): the first document with the id, or null.
FindOne(coll, oid) ==
    IF HasId(coll, oid)
    THEN coll[CHOOSE k \in 1..Len(coll) :
                 coll[k]._id = oid /\ \A j \in 1..(k - 1) : coll[j]._id # oid]
    ELSE NoDoc

\* An insertOne that replaces the document of an id already there.
InsertOne_Replace(coll, doc, up) ==
    IF ~up THEN [err |-> "StoreError", coll |-> coll, insertedId |-> NoId]
    ELSE IF HasId(coll, doc._id)
    THEN [err |-> "none",
          coll |-> [k \in 1..Len(coll) |->
                        IF coll[k]._id = doc._id THEN doc ELSE coll[k]],
          insertedId |-> doc._id]
    ELSE [err |-> "none", coll |-> Append(coll, doc), insertedId |-> doc._id]

\* insertOne on a collection without the unique index on _id.
InsertOne_NoUniqueIndex(coll, doc, up) ==
    IF ~up THEN [err |-> "StoreError", coll |-> coll, insertedId |-> NoId]
    ELSE [err |-> "none", coll |-> Append(coll, doc), insertedId |-> doc._id]

\* collection.insertOne(doc) with the store answering (up) or failing: the
\* unique index on _id refuses a second document with an id already there.
InsertOne(coll, doc, up) ==
    IF ~up THEN [err |-> "StoreError", coll |-> coll, insertedId |-> NoId]
    ELSE IF HasId(coll, doc._id)
    THEN [err |-> "DuplicateKey", coll |-> coll, insertedId |-> NoId]
    ELSE [err |-> "none", coll |-> Append(coll, doc), insertedId |-> doc._id]

\* ------------------------------------------------------------- the messages
\* JSON.stringify(message): the ObjectId is written as its hex text.
JSONStringify(message) ==
    [json |-> TRUE, imageId |-> ToHexString(message.imageId),
     imageUrl |-> message.imageUrl, url |-> message.url]

\* A body JSON.parse rejects.
NotJson == [json |-> FALSE, imageId |-> <<>>, imageUrl |-> <<>>, url |-> <<>>]

\* The server-named queue of an instance: assertQueue("", {}).
QueueName(i) == "amq.gen-" \o i

\* The instances whose queue a message published to (exchange, routingKey)
\* reaches: the fanout exchange copies to every queue bound to it, the
\* default exchange to the queue the routing key names.
Route(bound, exchange, routingKey) ==
    IF exchange = "image-uploaded" THEN bound
    ELSE IF exchange = "" THEN {i \in bound : QueueName(i) = routingKey}
    ELSE {}

VARIABLES
    phase,      \* phase[i]: "init", "running" (listening and consuming),
                \* "exited" (the process has ended), "stalled" (the process
                \* lives on without listening)
    boot,       \* boot[i]: the environment instance i was started with and
                \* the connections it has tried, in order
    store,      \* store[i]: the documents of instance i's images collection
    disk,       \* disk[i]: the files of ./uploads, as <<filename, upload>> pairs
    queue,      \* queue[i]: the deliveries of instance i's queue, in order
    published,  \* the sendToQueue calls of the upload route, in order
    uploads,    \* the POST /upload requests, in order of arrival
    lastQuery,  \* the last GET request and its answer
    nextOid,    \* the next ObjectId a driver generates
    now,        \* the clock, as last read
    requests    \* how many requests and events have come in

vars == <<phase, boot, store, disk, queue, published, uploads, lastQuery, nextOid, now, requests>>

\* The ObjectIds in play: 0a, 0b, ... in hex.
FirstOid == 10
MaxOid == FirstOid + 2 * MaxRequests - 1

\* Inputs.
EnvVars == {"PORT", "DBHOST", "DBNAME", "RABBIT"}
Environments == {EnvVars} \cup {EnvVars \ {v} : v \in EnvVars}
OriginalNames == {<<"cat", ".png">>}
EventUrls == {<<"u1">>}
BadIds == {<<"z", "z">>}

NoQuery == [request |-> 0, inst |-> "", route |-> "", id |-> <<>>, threw |-> FALSE,
            status |-> NoResponse, image |-> NoDoc, images |-> <<>>]

Init ==
    /\ phase = [i \in Instances |-> "init"]
    /\ boot = [i \in Instances |-> [env |-> EnvVars, tried |-> <<>>]]
    /\ store = [i \in Instances |-> <<>>]
    /\ disk = [i \in Instances |-> {}]
    /\ queue = [i \in Instances |-> <<>>]
    /\ published = <<>>
    /\ uploads = <<>>
    /\ lastQuery = NoQuery
    /\ nextOid = FirstOid
    /\ now = 0
    /\ requests = 0

Running == {i \in Instances : phase[i] = "running"}

\* A main without the check of RABBIT.
StartSteps_NoRabbitCheck(env, dbOk, mqOk) ==
    IF ~({"PORT", "DBHOST", "DBNAME"} \subseteq env)
    THEN [phase |-> "exited", tried |-> <<>>]
    ELSE IF ~dbOk THEN [phase |-> "exited", tried |-> <<"store">>]
    ELSE IF ~mqOk THEN [phase |-> "stalled", tried |-> <<"store", "channel">>]
    ELSE [phase |-> "running", tried |-> <<"store", "channel">>]

\* main and startMicroservice: with a variable missing main throws before
\* anything is connected; the store is connected first and the broker
\* second, and a failed connect throws out of startMicroservice; only after
\* both does the server listen. main().catch logs the error and ends nothing:
\* the process ends when nothing keeps it alive, which the connected store
\* client does when the broker could not be reached.
StartSteps(env, dbOk, mqOk) ==
    IF env # EnvVars THEN [phase |-> "exited", tried |-> <<>>]
    ELSE IF ~dbOk THEN [phase |-> "exited", tried |-> <<"store">>]
    ELSE IF ~mqOk THEN [phase |-> "stalled", tried |-> <<"store", "channel">>]
    ELSE [phase |-> "running", tried |-> <<"store", "channel">>]

\* The process of instance i is started with the variables env set.
Start(i, env, dbOk, mqOk) ==
    /\ phase[i] = "init"
    /\ phase' = [phase EXCEPT ![i] = StartSteps(env, dbOk, mqOk).phase]
    /\ boot' = [boot EXCEPT ![i] = [env |-> env,
                                    tried |-> StartSteps(env, dbOk, mqOk).tried]]
    /\ UNCHANGED <<store, disk, queue, published, uploads, lastQuery, nextOid, now, requests>>

\* ------------------------------------------------------------ the channel
Delivery(content) ==
    [content |-> content, state |-> "ready", err |-> "none", oid |-> NoId]

\* channel.publish(exchange, routingKey, content): a copy is put on every
\* queue the message routes to; a message that routes nowhere is dropped.
Publish(q, exchange, routingKey, content) ==
    [i \in Instances |->
        IF i \in Route(Running, exchange, routingKey)
        THEN Append(q[i], Delivery(content))
        ELSE q[i]]

\* channel.sendToQueue(name, content) is publish("", name, content).
SendToQueue(q, name, content) == Publish(q, "", name, content)

\* Another service publishes an event to the image-uploaded exchange: about
\* an id already in use, about a new one, with an id that is no ObjectId, or
\* with a body that is no JSON.
ExternalPublish(content) ==
    /\ requests < MaxRequests
    /\ ObjectId(content.imageId) <= MaxOid
    /\ requests' = requests + 1
    /\ nextOid' = IF ObjectId(content.imageId) = nextOid THEN nextOid + 1 ELSE nextOid
    /\ queue' = Publish(queue, "image-uploaded", "", content)
    /\ UNCHANGED <<phase, boot, store, disk, published, uploads, lastQuery, now>>

\* ------------------------------------------------------------ POST /upload
\* multer's filename: Date.now() + path.extname(file.originalname).
FileName(file, t) ==
    <<ToString(t)>> \o (IF ExtName(file) = "" THEN <<>> ELSE <<ExtName(file)>>)

\* A route that leaves the extension in the name of the url.
NewImage_KeepExt(file, filename, t) ==
    [_id |-> NoId,
     imageUrl |-> <<"advertise/uploads/">> \o filename,
     uploadedAt |-> t,
     url |-> <<"https://www.">> \o file \o <<".com">>]

\* The document the route builds for an uploaded file.
NewImage(file, filename, t) ==
    [_id |-> NoId,
     imageUrl |-> <<"advertise/uploads/">> \o filename,
     uploadedAt |-> t,
     url |-> <<"https://www.">> \o BaseName(file, ExtName(filename)) \o <<".com">>]

\* A route without the check of req.file.
HasFile_Always(file) == TRUE

\* if (!req.file)
HasFile(file) == file # NoFile

\* An event built without the id the insert returned.
UploadMessage_NoInsertedId(result, newImage) ==
    [imageId |-> NoId, imageUrl |-> newImage.imageUrl, url |-> newImage.url]

\* The event of an inserted document.
UploadMessage(result, newImage) ==
    [imageId |-> result.insertedId, imageUrl |-> newImage.imageUrl, url |-> newImage.url]

\* What the route does to the outside, in order.
Respond(status, image) ==
    [effect |-> "respond", status |-> status, image |-> image,
     to |-> "", content |-> NotJson]
Send(name, content) ==
    [effect |-> "publish", status |-> NoResponse, image |-> NoDoc,
     to |-> name, content |-> content]
IsRespond(e) == e.effect = "respond"
IsSend(e) == e.effect = "publish"

\* A route that hands the event to the channel before it answers.
UploadSteps_PublishFirst(hasFile, newImage, result) ==
    IF ~hasFile THEN <<Respond(400, NoDoc)>>
    ELSE IF result.err # "none" THEN <<>>
    ELSE <<Send("image-uploaded",
                JSONStringify([imageId |-> result.insertedId,
                               imageUrl |-> newImage.imageUrl, url |-> newImage.url])),
           Respond(201, newImage)>>

\* The route around its insert: without a file it answers 400 and returns;
\* a failed insert rejects the handler, and nothing is answered or sent;
\* after the insert it answers 201 with the document and then hands the
\* event to the channel.
UploadSteps(hasFile, newImage, result) ==
    IF ~hasFile THEN <<Respond(400, NoDoc)>>
    ELSE IF result.err # "none" THEN <<>>
    ELSE <<Respond(201, newImage),
           Send("image-uploaded", JSONStringify(UploadMessage(result, newImage)))>>

\* app.post("/upload") with the clock reading t: multer stores the file, if
\* there is one, under its generated name; the route builds the document and
\* inserts it, the driver giving it a new _id; then the steps above. On a
\* channel that is no longer open sendToQueue throws: the event is not sent
\* and, the route catching nothing, the handler rejects.
Upload(i, file, t, up, open) ==
    /\ i \in Running
    /\ requests < MaxRequests
    /\ requests' = requests + 1
    /\ now' = IF file = NoFile THEN now ELSE t
    /\ LET hasFile == HasFile(file)
           filename == FileName(file, t)
           newImage == [NewImage(file, filename, t) EXCEPT !._id = nextOid]
           result == IF hasFile THEN InsertOne(store[i], newImage, up)
                     ELSE [err |-> "none", coll |-> store[i], insertedId |-> NoId]
           steps == UploadSteps(hasFile, newImage, result)
           responds == SelectSeq(steps, IsRespond)
           sends == SelectSeq(steps, IsSend)
       IN  /\ hasFile => nextOid <= MaxOid
           /\ disk' = IF file = NoFile THEN disk
                      ELSE [disk EXCEPT ![i] = {f \in @ : f[1] # filename}
                                               \cup {<<filename, Len(uploads) + 1>>}]
           /\ nextOid' = IF hasFile THEN nextOid + 1 ELSE nextOid
           /\ store' = [store EXCEPT ![i] = result.coll]
           /\ uploads' = Append(uploads,
                 [inst |-> i, file |-> file, err |-> result.err,
                  status |-> IF responds = <<>> THEN NoResponse ELSE responds[1].status,
                  image |-> IF responds = <<>> THEN NoDoc ELSE responds[1].image,
                  insertedId |-> result.insertedId,
                  threw |-> result.err # "none" \/ (sends # <<>> /\ ~open),
                  log |-> (IF hasFile /\ result.err = "none" THEN <<"write">> ELSE <<>>)
                          \o [k \in 1..Len(steps) |-> steps[k].effect]])
           /\ published' = published \o
                 [k \in 1..Len(sends) |->
                    [upload |-> Len(uploads) + 1, exchange |-> "",
                     routingKey |-> sends[k].to, content |-> sends[k].content,
                     sent |-> open]]
           /\ queue' = IF sends = <<>> \/ ~open THEN queue
                       ELSE SendToQueue(queue, sends[1].to, sends[1].content)
    /\ UNCHANGED <<phase, boot, lastQuery>>

\* -------------------------------------------------------------- the queries
\* A GET request as it comes in, not yet answered.
Query(i, route, id) ==
    [NoQuery EXCEPT !.request = requests + 1, !.inst = i, !.route = route, !.id = id]

\* app.get("/images"): every document of the collection.
GetImages(i) ==
    /\ i \in Running
    /\ requests < MaxRequests
    /\ requests' = requests + 1
    /\ lastQuery' = [Query(i, "images", <<>>) EXCEPT !.status = 200, !.images = store[i]]
    /\ UNCHANGED <<phase, boot, store, disk, queue, published, uploads, nextOid, now>>

\* app.get("/image") with ?id=<id>: an id that is no ObjectId throws out of
\* the handler before anything is answered; otherwise 404 without a
\* document of that id and the document with one.
GetImage(i, id) ==
    /\ i \in Running
    /\ requests < MaxRequests
    /\ requests' = requests + 1
    /\ LET imageId == ObjectId(id)
           image == FindOne(store[i], imageId)
       IN  lastQuery' =
             IF imageId = Invalid THEN [Query(i, "image", id) EXCEPT !.threw = TRUE]
             ELSE IF image = NoDoc THEN [Query(i, "image", id) EXCEPT !.status = 404]
             ELSE [Query(i, "image", id) EXCEPT !.status = 200, !.image = image]
    /\ UNCHANGED <<phase, boot, store, disk, queue, published, uploads, nextOid, now>>

\* ------------------------------------------------------------- the consumer
\* A handler that catches the error of its insert and goes on to the ack.
AfterInsert_Swallow(err) == "awaiting"

\* The handler once its insert has answered: an error is thrown on, past the
\* ack; otherwise the handler goes on to it.
AfterInsert(err) == IF err = "none" THEN "awaiting" ELSE "failed"

\* A handler that leaves the url of the event out of the document.
ImageMetadata_NoUrl(parsedMsg, oid) ==
    [_id |-> oid, imageUrl |-> parsedMsg.imageUrl,
     uploadedAt |-> NoDate, url |-> <<>>]

\* imageMetadata: the document the handler builds of an event; it has no
\* uploadedAt.
ImageMetadata(parsedMsg, oid) ==
    [_id |-> oid, imageUrl |-> parsedMsg.imageUrl,
     uploadedAt |-> NoDate, url |-> parsedMsg.url]

\* consumeImageUploadedMessage up to the answer of its awaited insert, for
\* the next delivery of the queue: a body that is no JSON, an imageId that is
\* no ObjectId, or a failed insert throws out of the handler, which never
\* reaches its ack; a successful insert leaves the handler at its await.
ConsumeBegin(i, k, up) ==
    /\ i \in Running
    /\ k \in 1..Len(queue[i])
    /\ queue[i][k].state = "ready"
    /\ \A j \in 1..(k - 1) : queue[i][j].state # "ready"
    /\ LET parsedMsg == queue[i][k].content
           oid == NewObjectId(parsedMsg.imageId, nextOid)
           imageMetadata == ImageMetadata(parsedMsg, oid)
           r == InsertOne(store[i], imageMetadata, up)
       IN  IF ~parsedMsg.json
           THEN /\ queue' = [queue EXCEPT ![i][k].state = "failed",
                                          ![i][k].err = "SyntaxError"]
                /\ UNCHANGED <<store, nextOid>>
           ELSE IF oid = Invalid
           THEN /\ queue' = [queue EXCEPT ![i][k].state = "failed",
                                          ![i][k].err = "BSONError"]
                /\ UNCHANGED <<store, nextOid>>
           ELSE /\ queue' = [queue EXCEPT
                       ![i][k].state = AfterInsert(r.err),
                       ![i][k].err = r.err,
                       ![i][k].oid = oid]
                /\ store' = [store EXCEPT ![i] = r.coll]
                /\ nextOid' = IF parsedMsg.imageId = Null THEN nextOid + 1 ELSE nextOid
    /\ UNCHANGED <<phase, boot, disk, published, uploads, lastQuery, now, requests>>

\* consumeImageUploadedMessage after its await: the delivery is acked.
ConsumeResume(i, k) ==
    /\ k \in 1..Len(queue[i])
    /\ queue[i][k].state = "awaiting"
    /\ queue' = [queue EXCEPT ![i][k].state = "acked"]
    /\ UNCHANGED <<phase, boot, store, disk, published, uploads, lastQuery, nextOid, now, requests>>

\* ------------------------------------------------------- the specification
Event(id, imageUrl, url) ==
    [json |-> TRUE, imageId |-> id, imageUrl |-> imageUrl, url |-> url]

EventContents ==
    {Event(ToHexString(oid), u, <<"v">>) : oid \in {FirstOid, nextOid}, u \in EventUrls}
    \cup {Event(id, <<"u1">>, <<"v">>) : id \in BadIds \cup {Null}}
    \cup {NotJson}
    \cup {published[p].content : p \in 1..Len(published)}

\* The text of an id in upper case.
ToUpper(s) == [k \in 1..Len(s) |-> UpperDigits[HexVal(s[k]) + 1]]

QueryIds ==
    {ToHexString(oid) : oid \in {FirstOid, nextOid}}
    \cup {ToUpper(ToHexString(FirstOid))} \cup BadIds

Next ==
    \/ \E i \in Instances, env \in Environments, dbOk, mqOk \in BOOLEAN :
            Start(i, env, dbOk, mqOk)
    \/ \E content \in EventContents : ExternalPublish(content)
    \/ \E i \in Instances, file \in OriginalNames \cup {NoFile},
          t \in {now, now + 1}, up, open \in BOOLEAN :
            Upload(i, file, t, up, open)
    \/ \E i \in Instances : GetImages(i)
    \/ \E i \in Instances, id \in QueryIds : GetImage(i, id)
    \/ \E i \in Instances, k \in 1..MaxRequests, up \in BOOLEAN : ConsumeBegin(i, k, up)
    \/ \E i \in Instances, k \in 1..MaxRequests : ConsumeResume(i, k)

Spec == Init /\ [][Next]_vars

\* ---------------------------------------------------------- the properties
Deliveries(i) == 1..Len(queue[i])
EventOid(m) ==
    IF m.content.imageId = Null THEN m.oid ELSE ObjectId(m.content.imageId)
WellFormed(m) == m.content.json /\ ObjectId(m.content.imageId) # Invalid
Handled(m) == m.state # "ready"

\* A step in which the handler of delivery k of instance i runs up to its
\* insert.
Handles(i, k) ==
    /\ k \in Deliveries(i)
    /\ queue[i][k].state = "ready"
    /\ queue'[i][k].state # "ready"

\* C1: a delivery is acked only from a handler whose insert succeeded, when
\* the document of the event is in the store; a delivery whose handler threw
\* (the insert failed) is never acked afterwards and stays unacknowledged.
C1_AckOnlyAfterWrite ==
    /\ [](\A i \in Instances : \A k \in Deliveries(i) :
            queue[i][k].state = "acked" =>
                /\ queue[i][k].err = "none"
                /\ HasId(store[i], EventOid(queue[i][k])))
    /\ [][\A i \in Instances : \A k \in Deliveries(i) :
            /\ queue[i][k].state = "failed" => queue'[i][k].state = "failed"
            /\ (queue[i][k].state # "acked" /\ queue'[i][k].state = "acked") =>
                  (queue[i][k].state = "awaiting" /\ queue[i][k].err = "none")]_vars

\* C1 witness: one delivery acked after its write, another whose write
\* failed and that is not acked.
C1_Witness ==
    \E i \in Instances : \E j, k \in Deliveries(i) :
        /\ queue[i][j].state = "acked"
        /\ queue[i][k].state = "failed"
        /\ queue[i][k].err = "StoreError"

\* C2: a well-formed event whose id is already in the store of the instance
\* (the store answering) is handled without error: the handler goes on to
\* its ack and the store holds exactly one document of that id.
C2_ToleratesExistingId ==
    [][\A i \in Instances : \A k \in Deliveries(i) :
        (/\ Handles(i, k)
         /\ WellFormed(queue[i][k])
         /\ HasId(store[i], EventOid(queue[i][k]))
         /\ queue'[i][k].err # "StoreError")
        => /\ queue'[i][k].state = "awaiting"
           /\ CountId(store'[i], EventOid(queue[i][k])) = 1]_vars

\* C3: when an event is delivered a second time, its first delivery having
\* been handled by an answering store, the store is left as it was and holds
\* exactly one document of the event's id.
C3_SecondDeliveryNoOp ==
    [][\A i \in Instances : \A j, k \in Deliveries(i) :
        (/\ j # k
         /\ queue[i][j].content = queue[i][k].content
         /\ WellFormed(queue[i][k])
         /\ Handled(queue[i][j])
         /\ queue[i][j].err # "StoreError"
         /\ Handles(i, k))
        => /\ store'[i] = store[i]
           /\ CountId(store'[i], EventOid(queue[i][k])) = 1]_vars

\* C3 witness: the same event delivered twice and handled twice, one
\* document of its id in the store.
C3_Witness ==
    \E i \in Instances : \E j, k \in Deliveries(i) :
        /\ j < k
        /\ queue[i][j].content = queue[i][k].content
        /\ queue[i][j].state = "acked"
        /\ Handled(queue[i][k])
        /\ queue[i][k].err = "DuplicateKey"
        /\ CountId(store[i], EventOid(queue[i][k])) = 1

\* C4: the event an upload publishes (the channel taking it) is put on the
\* queue of every running instance.
C4_FanoutDelivery ==
    [][(Len(published') > Len(published) /\ published'[Len(published')].sent) =>
        \A j \in Running :
            /\ Len(queue'[j]) = Len(queue[j]) + 1
            /\ queue'[j][Len(queue'[j])].content
                 = published'[Len(published')].content]_vars

PublishedFor(k) == {p \in 1..Len(published) : published[p].upload = k}

\* C5: an upload with a file whose insert succeeded is answered 201 with a
\* document whose _id is the id of the document inserted in the store of
\* the instance and the imageId of the event published for the upload.
C5_UploadIdsAgree ==
    \A k \in 1..Len(uploads) :
        LET u == uploads[k]
        IN  (u.file # NoFile /\ u.err = "none") =>
                /\ u.status = 201
                /\ u.image._id # NoId
                /\ u.image._id = u.insertedId
                /\ FindOne(store[u.inst], u.image._id) = u.image
                /\ PublishedFor(k) # {}
                /\ \A p \in PublishedFor(k) :
                        /\ published[p].content.json
                        /\ ObjectId(published[p].content.imageId) = u.image._id

\* C5 witness: an upload answered 201 whose event has been published.
C5_Witness ==
    \E k \in 1..Len(uploads) :
        /\ uploads[k].file # NoFile
        /\ uploads[k].status = 201
        /\ PublishedFor(k) # {}

\* C6: in an upload with a file, the answer comes after the store write and
\* before the publish, a publish comes only after the answer, and every
\* upload answered 201 has published its event.
C6_UploadOrder ==
    \A k \in 1..Len(uploads) :
        LET u == uploads[k]
            At(what) == {a \in 1..Len(u.log) : u.log[a] = what}
        IN  u.file # NoFile =>
                /\ \A a \in At("respond") :
                        /\ \E b \in At("write") : b < a
                        /\ \E c \in At("publish") : a < c
                /\ \A c \in At("publish") : \E a \in At("respond") : a < c
                /\ u.status = 201 =>
                        /\ At("respond") # {}
                        /\ PublishedFor(k) # {}
                        /\ HasId(store[u.inst], u.insertedId)

\* C6 witness: an upload that wrote, answered and published, in this order.
C6_Witness ==
    \E k \in 1..Len(uploads) : uploads[k].log = <<"write", "respond", "publish">>

\* C7: a well-formed event delivered to a subscribed instance whose store
\* answers ends acked, with a document of its id, imageUrl and url in the
\* store for GET /image to return.
C7_EventMaterialized ==
    \A i \in Instances : \A k \in Deliveries(i) :
        LET m == queue[i][k]
            image == FindOne(store[i], EventOid(m))
        IN  (WellFormed(m) /\ m.state \in {"acked", "failed"} /\ m.err # "StoreError") =>
                /\ m.state = "acked"
                /\ image._id = EventOid(m)
                /\ image.imageUrl = m.content.imageUrl
                /\ image.url = m.content.url

\* C8: an upload without a file is answered 400, and the request writes
\* nothing to the store, stores no file and publishes nothing.
C8_NoFileNoEffect ==
    /\ [](\A k \in 1..Len(uploads) :
            uploads[k].file = NoFile =>
                /\ uploads[k].status = 400
                /\ uploads[k].log = <<"respond">>
                /\ PublishedFor(k) = {})
    /\ [][(Len(uploads') > Len(uploads) /\ uploads'[Len(uploads')].file = NoFile) =>
            /\ store' = store
            /\ disk' = disk
            /\ published' = published
            /\ queue' = queue]_vars

\* C8 witness: an upload without a file, answered 400, after a document was
\* stored.
C8_Witness ==
    \E k \in 1..Len(uploads) :
        /\ uploads[k].file = NoFile
        /\ uploads[k].status = 400
        /\ store[uploads[k].inst] # <<>>

\* C9: GET /image with an id that is no ObjectId is answered 400.
C9_MalformedId400 ==
    (lastQuery.route = "image" /\ ObjectId(lastQuery.id) = Invalid) =>
        lastQuery.status = 400

\* C10: GET /image with a well-formed id is answered 404 when the store of
\* the instance holds no document of that id as the request is served, and
\* otherwise 200 with the document of that id the store holds.
C10_GetById ==
    [][(/\ lastQuery'.request # lastQuery.request
        /\ lastQuery'.route = "image"
        /\ ObjectId(lastQuery'.id) # Invalid)
       => LET q == lastQuery'
              oid == ObjectId(q.id)
          IN  IF HasId(store[q.inst], oid)
              THEN /\ q.status = 200
                   /\ q.image._id = oid
                   /\ \E d \in 1..Len(store[q.inst]) : store[q.inst][d] = q.image
              ELSE q.status = 404]_vars

\* C10 witness: a document of the store returned with 200 for its id.
C10_Witness ==
    /\ lastQuery.route = "image"
    /\ lastQuery.status = 200
    /\ lastQuery.image._id = ObjectId(lastQuery.id)
    /\ Len(store[lastQuery.inst]) > 0

\* C11: when the publish of an upload fails, the upload stays answered 201,
\* its document stays in the store, and the failure is handled in the route
\* (nothing is thrown out of the handler).
C11_PublishFailureHandled ==
    \A k \in 1..Len(uploads) : \A p \in PublishedFor(k) :
        ~published[p].sent =>
            /\ uploads[k].status = 201
            /\ HasId(store[uploads[k].inst], uploads[k].insertedId)
            /\ ~uploads[k].threw

\* C12: an instance whose connect to the store or to the broker failed has
\* exited, and never listens.
C12_ConnectFailureFatal ==
    \A i \in Instances :
        (phase[i] \notin {"init", "running"} /\ boot[i].tried # <<>>) =>
            phase[i] = "exited"

\* C13: an instance started with one of PORT, DBHOST, DBNAME, RABBIT missing
\* fails before it has tried any connection, and never listens or serves a
\* request.
C13_MissingConfigFatal ==
    /\ [](\A i \in Instances :
            (phase[i] # "init" /\ boot[i].env # EnvVars) =>
                /\ phase[i] = "exited"
                /\ boot[i].tried = <<>>
                /\ store[i] = <<>> /\ queue[i] = <<>>
                /\ lastQuery.inst # i
                /\ \A k \in 1..Len(uploads) : uploads[k].inst # i)
    /\ [][\A i \in Instances : phase[i] = "exited" => phase'[i] = "exited"]_vars

\* C13 witness: an instance started without RABBIT has exited while the
\* other instance serves requests.
C13_Witness ==
    \E i \in Instances :
        /\ boot[i].env = EnvVars \ {"RABBIT"}
        /\ phase[i] = "exited"
        /\ requests > 0

\* The deliveries of the event of upload k.
IsEventOf(m, k) == \E p \in PublishedFor(k) : m.content = published[p].content
Processed(m) == m.state \in {"awaiting", "acked"}

\* C14 as stated: once the event of an upload answered 201 on one instance
\* has been processed on another, the other's store holds a record of that
\* id with the imageUrl, url and uploadedAt of the first's.
C14_ConvergeWithUploadedAt ==
    \A k \in 1..Len(uploads) : \A b \in Instances : \A j \in Deliveries(b) :
        (/\ uploads[k].status = 201
         /\ b # uploads[k].inst
         /\ IsEventOf(queue[b][j], k)
         /\ Processed(queue[b][j]))
        => LET mine == FindOne(store[uploads[k].inst], uploads[k].insertedId)
               theirs == FindOne(store[b], uploads[k].insertedId)
           IN  /\ theirs # NoDoc
               /\ theirs.imageUrl = mine.imageUrl
               /\ theirs.url = mine.url
               /\ theirs.uploadedAt = mine.uploadedAt

\* C14: once the event of an upload answered 201 on one instance has been
\* processed on another, the other's store holds a record of that id with
\* the imageUrl and url of the first's.
C14_Converge ==
    \A k \in 1..Len(uploads) : \A b \in Instances : \A j \in Deliveries(b) :
        (/\ uploads[k].status = 201
         /\ b # uploads[k].inst
         /\ IsEventOf(queue[b][j], k)
         /\ Processed(queue[b][j]))
        => LET mine == FindOne(store[uploads[k].inst], uploads[k].insertedId)
               theirs == FindOne(store[b], uploads[k].insertedId)
           IN  /\ mine # NoDoc
               /\ theirs # NoDoc
               /\ theirs._id = mine._id
               /\ theirs.imageUrl = mine.imageUrl
               /\ theirs.url = mine.url

\* C14 witness: the event of an upload answered 201 has been processed and
\* acked on the other instance.
C14_Witness ==
    \E k \in 1..Len(uploads) : \E b \in Instances : \E j \in Deliveries(b) :
        /\ uploads[k].status = 201
        /\ b # uploads[k].inst
        /\ IsEventOf(queue[b][j], k)
        /\ queue[b][j].state = "acked"
        /\ HasId(store[b], uploads[k].insertedId)

\* C15: the record written for a processed event has the id, the imageUrl
\* and the url of the event, and an uploadedAt.
C15_ConsumerRecord ==
    \A i \in Instances : \A k \in Deliveries(i) :
        (Processed(queue[i][k]) /\ WellFormed(queue[i][k])) =>
            LET d == FindOne(store[i], EventOid(queue[i][k]))
            IN  /\ d # NoDoc
                /\ d.imageUrl = queue[i][k].content.imageUrl
                /\ d.url = queue[i][k].content.url
                /\ d.uploadedAt # NoDate

\* C16: two uploads of files of the same original name on one instance are
\* stored under distinct names: each has its file on the disk, and their
\* records have distinct imageUrls.
C16_DistinctBlobNames ==
    \A j, k \in 1..Len(uploads) :
        (/\ j # k
         /\ uploads[j].inst = uploads[k].inst
         /\ uploads[j].file # NoFile
         /\ uploads[j].file = uploads[k].file)
        => /\ \E f \in disk[uploads[j].inst] : f[2] = j
           /\ \E f \in disk[uploads[k].inst] : f[2] = k
           /\ (uploads[j].status = 201 /\ uploads[k].status = 201) =>
                  uploads[j].image.imageUrl # uploads[k].image.imageUrl

\* The original name without its extension.
Stem(file) == IF Len(file) > 1 THEN SubSeq(file, 1, Len(file) - 1) ELSE file

\* The extension of the original name, if it has one.
Extension(file) == IF Len(file) > 1 THEN <<file[Len(file)]>> ELSE <<>>

\* C17: a GET /images of an instance answers with a list that has the record
\* of every upload the instance has answered 201, the url of the record
\* being https://www.<original name without extension>.com and its imageUrl
\* the uploads directory, the generated name and the original extension.
C17_ReadYourWrite ==
    [][(lastQuery'.request # lastQuery.request /\ lastQuery'.route = "images") =>
        \A k \in 1..Len(uploads) :
            (uploads[k].status = 201 /\ uploads[k].inst = lastQuery'.inst) =>
                \E d \in 1..Len(lastQuery'.images) :
                    LET r == lastQuery'.images[d]
                        file == uploads[k].file
                    IN  /\ r = uploads[k].image
                        /\ r.url = <<"https://www.">> \o Stem(file) \o <<".com">>
                        /\ \E f \in disk[uploads[k].inst] :
                              /\ r.imageUrl = <<"advertise/uploads/">> \o f[1]
                              /\ f[1] = <<f[1][1]>> \o Extension(file)]_vars

\* C17 witness: a GET /images answered with the record of an upload of the
\* instance.
C17_Witness ==
    /\ lastQuery.route = "images"
    /\ \E k \in 1..Len(uploads) :
        /\ uploads[k].status = 201
        /\ uploads[k].inst = lastQuery.inst
        /\ \E d \in 1..Len(lastQuery.images) : lastQuery.images[d] = uploads[k].image

\* C18: no step removes a record from a store or changes one: every record
\* stays where it is, as it is.
C18_RecordsImmutable ==
    [][\A i \in Instances :
        /\ Len(store'[i]) >= Len(store[i])
        /\ \A d \in 1..Len(store[i]) : store'[i][d] = store[i][d]]_vars

\* C18 witness: an event with the id of a record of other fields has been
\* handled, and the record is as it was.
C18_Witness ==
    \E i \in Instances : \E k \in Deliveries(i) :
        /\ queue[i][k].err = "DuplicateKey"
        /\ FindOne(store[i], EventOid(queue[i][k])).imageUrl
                # queue[i][k].content.imageUrl

\* C19: of two deliveries with the same imageId, both handled with the store
\* answering, the store has exactly one record of the id, at most one
\* handler has got past its insert to its ack, and the other has failed at
\* the insert; a failed handler never acks.
C19_ConcurrentSameId ==
    /\ [](\A i \in Instances : \A j, k \in Deliveries(i) :
            (/\ j < k
             /\ WellFormed(queue[i][j]) /\ WellFormed(queue[i][k])
             /\ EventOid(queue[i][j]) = EventOid(queue[i][k])
             /\ Handled(queue[i][j]) /\ Handled(queue[i][k])
             /\ queue[i][j].err # "StoreError"
             /\ queue[i][k].err # "StoreError")
            => /\ CountId(store[i], EventOid(queue[i][k])) = 1
               /\ ~(Processed(queue[i][j]) /\ Processed(queue[i][k]))
               /\ queue[i][k].state = "failed"
               /\ queue[i][k].err = "DuplicateKey")
    /\ [][\A i \in Instances : \A k \in Deliveries(i) :
            queue[i][k].err = "DuplicateKey" =>
                /\ queue'[i][k].state = "failed"
                /\ queue'[i][k].err = "DuplicateKey"]_vars

\* C19 witness: the second handler has failed at its insert while the first
\* is still at its await, not yet at its ack.
C19_Witness ==
    \E i \in Instances : \E j, k \in Deliveries(i) :
        /\ j < k
        /\ EventOid(queue[i][j]) = EventOid(queue[i][k])
        /\ queue[i][j].state = "awaiting"
        /\ queue[i][k].state = "failed"
        /\ queue[i][k].err = "DuplicateKey"
        /\ CountId(store[i], EventOid(queue[i][k])) = 1

\* A body that is no JSON, or an imageId that is a string and no id.
Rejected(m) ==
    \/ ~m.content.json
    \/ (m.content.imageId # Null /\ ObjectId(m.content.imageId) = Invalid)

\* C20 as stated: a delivery whose body is no JSON or whose imageId is no id
\* writes nothing to the store and is never acked.
C20_InvalidNeverWritten ==
    /\ [](\A i \in Instances : \A k \in Deliveries(i) :
            ~WellFormed(queue[i][k]) => ~Processed(queue[i][k]))
    /\ [][\A i \in Instances : \A k \in Deliveries(i) :
            (Handles(i, k) /\ ~WellFormed(queue[i][k])) => store'[i] = store[i]]_vars

\* C20: a delivery whose body is no JSON or whose imageId is a string that
\* is no id writes nothing to the store, and is never acked: its handler
\* throws and the delivery stays as it is.
C20_RejectedNeverWritten ==
    /\ [](\A i \in Instances : \A k \in Deliveries(i) :
            Rejected(queue[i][k]) =>
                /\ ~Processed(queue[i][k])
                /\ queue[i][k].oid = NoId
                /\ Handled(queue[i][k]) =>
                      queue[i][k].err \in {"SyntaxError", "BSONError"})
    /\ [][\A i \in Instances : \A k \in Deliveries(i) :
            /\ (Handles(i, k) /\ Rejected(queue[i][k])) => store'[i] = store[i]
            /\ (Rejected(queue[i][k]) /\ Handled(queue[i][k])) =>
                  queue'[i][k] = queue[i][k]]_vars

\* C20 witness: a delivery with no JSON and one with a string that is no id
\* have been handled, and have failed.
C20_Witness ==
    \E i \in Instances : \E j, k \in Deliveries(i) :
        /\ queue[i][j].err = "SyntaxError"
        /\ queue[i][k].err = "BSONError"
        /\ queue[i][j].state = "failed"
        /\ queue[i][k].state = "failed"

====
